---- MODULE Spec2Model ----
(***************************************************************************)
(* The POOS backtest engine (src/src/poos_backtest/engine.py) as a state   *)
(* machine.  One behaviour is one run of main(): the loading of the ETF    *)
(* frames and of the market ticker (main.py), then one call of             *)
(* run_backtest, whose day loop is cut into its phases (mark, manage,      *)
(* close, remark, entry, record), and the end-of-run liquidation.          *)
(*                                                                         *)
(* Numbers.  Money and prices are integers in mills (1/1000 of a dollar);  *)
(* ratios given to the engine (risk_per_trade, max_position_pct,           *)
(* perf_3m_min) and ratios it computes (perf_3m, pnl_pct) are pairs        *)
(* <<numerator, denominator>>.  The input values are taken on a grid on    *)
(* which every product and quotient of the engine is exact, so the model   *)
(* follows the code's arithmetic over the reals; the rounding of binary    *)
(* floating point is not modelled.                                         *)
(*                                                                         *)
(* Series.  The engine reads row i of every prepared frame on day i.  The  *)
(* bars and the ewm / rolling-mean columns (ema5, ema10, rs_ema20, ema20,  *)
(* ema21, atr14) of a row are drawn when the day is reached; whether a     *)
(* rolling column is defined on day i follows the window sizes of the      *)
(* code; perf_3m is computed from the closes.                              *)
(***************************************************************************)
EXTENDS Integers, Sequences, FiniteSets, TLC

\* ------------------------------------------------------------------------
\* Program constants
\* ------------------------------------------------------------------------
BpsDenominator == 10000
AtrPeriod == 14
Perf3mPeriods == 63
MinRiskPerShare == 10

\* h >= entry_price * 1.01   and   stop_px = limit_px * 0.9
BreakevenFactor == <<101, 100>>
StopFallbackFactor == <<9, 10>>

\* ------------------------------------------------------------------------
\* Bounds
\* ------------------------------------------------------------------------
\* days simulated after the first Perf3mPeriods days
ActiveDays == 3

NDays == Perf3mPeriods + ActiveDays

\* ------------------------------------------------------------------------
\* Floating-point columns that may be undefined
\* ------------------------------------------------------------------------
NaN == [k |-> "nan", n |-> 0, d |-> 1]
PosInf == [k |-> "inf", n |-> 1, d |-> 1]
NegInf == [k |-> "inf", n |-> -1, d |-> 1]
Fin(n, d) == IF d > 0 THEN [k |-> "fin", n |-> n, d |-> d]
                      ELSE [k |-> "fin", n |-> -n, d |-> -d]

isnan(x) == x.k = "nan"

\* x < y on floats: FALSE as soon as one side is NaN
FloatLess(x, y) ==
    IF isnan(x) \/ isnan(y) THEN FALSE
    ELSE IF x.k = "inf" THEN x.n < 0 /\ ~(y.k = "inf" /\ y.n < 0)
    ELSE IF y.k = "inf" THEN y.n > 0
    ELSE x.n * y.d < y.n * x.d

\* ------------------------------------------------------------------------
\* indicators.py
\* ------------------------------------------------------------------------
\* series.pct_change(periods) at index idx: cur is series[idx], past is
\* series[idx - periods]
percent_change(cur, past, idx, periods) ==
    IF idx < periods THEN NaN
    ELSE IF past = 0
         THEN (IF cur = 0 THEN NaN ELSE IF cur > 0 THEN PosInf ELSE NegInf)
         ELSE Fin(cur - past, past)

\* tr.rolling(period).mean() at index idx: undefined until the window of
\* `period` true ranges is full; mean is the drawn value of the column
atr(mean, idx, period) ==
    IF idx < period - 1 THEN NaN ELSE Fin(mean, 1)

\* ------------------------------------------------------------------------
\* Execution cost model
\* ------------------------------------------------------------------------
\* a / b where the quotient is a whole number of mills: evaluation stops
\* with an error on an input that leaves the grid, instead of rounding
ExactDiv(a, b) == CHOOSE q \in {a \div b} : q * b = a

\* mutant of _slip: the sign of the slippage is swapped
_slip_Favourable(price, bps, is_buy) ==
    IF is_buy THEN ExactDiv(price * (BpsDenominator - bps), BpsDenominator)
              ELSE ExactDiv(price * (BpsDenominator + bps), BpsDenominator)

_slip(price, bps, is_buy) ==
    IF is_buy THEN ExactDiv(price * (BpsDenominator + bps), BpsDenominator)
              ELSE ExactDiv(price * (BpsDenominator - bps), BpsDenominator)

Max(a, b) == IF a >= b THEN a ELSE b
Min(a, b) == IF a <= b THEN a ELSE b

_commission(shares, per_share, min_fee) == Max(min_fee, shares * per_share)

\* ------------------------------------------------------------------------
\* Inputs of a run: the arguments of run_backtest
\* ------------------------------------------------------------------------
Sector == "XLK"

\* defaults of the keyword arguments shared by the runs below
BaseRun ==
    [ name |-> "grid",
      start_cash |-> 100000,
      risk_per_trade |-> <<2, 100>>,
      max_position_pct |-> <<10, 100>>,
      slippage_bps |-> 1000,
      commission_per_share |-> 5,
      commission_min |-> 20,
      min_dollar_volume |-> 50000,
      price_max |-> 50000,
      perf_3m_min |-> <<60, 100>>,
      universe |-> <<"AAA", "BBB">>,
      ticker_to_sector |-> [t \in {"AAA", "BBB", "CCC"} |-> Sector],
      sector_dfs |-> {Sector},
      warmup_close |-> 500 ]

Runs ==
    { BaseRun,
      \* no slippage, flat minimum commission
      [BaseRun EXCEPT !.name = "grid0", !.slippage_bps = 0,
                      !.commission_per_share = 0, !.commission_min = 30],
      \* position cap of 100%: the cost of a full-size entry exceeds the cash
      [BaseRun EXCEPT !.name = "allin", !.risk_per_trade = <<100, 100>>,
                      !.max_position_pct = <<100, 100>>],
      \* an account too small for one share
      [BaseRun EXCEPT !.name = "small", !.start_cash = 5000],
      \* filter cascade: one mapped ticker, one unmapped, one whose sector
      \* instrument is not loaded
      [BaseRun EXCEPT !.name = "filters",
                      !.universe = <<"AAA", "BBB", "CCC">>,
                      !.ticker_to_sector = [t \in {"AAA", "BBB", "CCC"} |->
                          IF t = "AAA" THEN Sector
                          ELSE IF t = "BBB" THEN "" ELSE "XLE"]],
      \* the sizing scenario of the specification: 100,000.00 of cash,
      \* 2 bps, 0.005 per share, minimum 1.00, one ticker
      [BaseRun EXCEPT !.name = "scenario", !.start_cash = 100000000,
                      !.slippage_bps = 2, !.commission_min = 1000,
                      !.universe = <<"AAA">>, !.warmup_close = 25000],
      \* a ticker too dear for one share next to one that is affordable
      [BaseRun EXCEPT !.name = "bigticket"],
      \* closes of 0 on the first Perf3mPeriods days
      [BaseRun EXCEPT !.name = "zerobase", !.universe = <<"AAA">>,
                      !.warmup_close = 0],
      \* one share of a one-dollar stock takes all the cash, and the minimum
      \* commission is a dollar
      [BaseRun EXCEPT !.name = "penny", !.start_cash = 2100,
                      !.risk_per_trade = <<100, 100>>,
                      !.max_position_pct = <<50, 100>>,
                      !.commission_min = 1000, !.universe = <<"AAA">>] }

Bar(o, h, l, c, v, e20, e21, a) ==
    [open |-> o, high |-> h, low |-> l, close |-> c, volume |-> v,
     ema20 |-> e20, ema21 |-> e21, atr14 |-> a]

\* bars around a limit (ema20) of 1.000 with an average true range of 0.200
Flat(c) == Bar(c, c, c, c, 100, c, c, 0)
Touch == Bar(1000, 1000, 1000, 1000, 100, 1000, 1000, 200)
\* a rally along an average that has risen to 1.200
Rally == Bar(1200, 1300, 1200, 1300, 100, 1200, 1200, 200)
Reversal == Bar(1000, 1200, 1000, 1200, 100, 1000, 1000, 200)
Drop == Bar(1000, 1000, 700, 700, 100, 1000, 1000, 200)
GapDown == Bar(700, 700, 600, 600, 100, 1000, 1000, 200)
\* bars that fail one stock filter each, and one with atr14 = limit
Pricey == Bar(60000, 60000, 60000, 60000, 100, 60000, 60000, 200)
Thin == Bar(1000, 1000, 1000, 1000, 10, 1000, 1000, 200)
GapBelow == Bar(1000, 1000, 1000, 1000, 100, 1000, 1100, 200)
\* a bar at 20.000: a tenth of the equity of 100.000 buys no share of it
Big == Bar(20000, 20000, 20000, 20000, 100, 20000, 20000, 200)
NoTouch == Bar(1200, 1300, 1200, 1200, 100, 1000, 1000, 200)
Volatile == Bar(1000, 1000, 1000, 1000, 100, 1000, 1000, 1000)
\* bars of the sizing scenario: ema20 50.000, atr14 2.000
Touch50 == Bar(50000, 50000, 50000, 50000, 1000, 50000, 50000, 2000)
Rally50 == Bar(55000, 60000, 55000, 60000, 1000, 50000, 50000, 2000)

\* the sector instrument: a close that falls by a hundredth of a dollar a day
\* and a relative-strength average that rises every day
SectorClose(idx) == 2000 - 10 * idx
SectorUp(idx) == [close |-> SectorClose(idx), rs_ema20 |-> idx]
SectorWeak(idx) == [close |-> SectorClose(idx), rs_ema20 |-> 0]
SectorBad(idx) == [close |-> 0, rs_ema20 |-> idx]

RiskOnRow == [ema5 |-> 11, ema10 |-> 10]
RiskOffRow == [ema5 |-> 10, ema10 |-> 10]

Day(spyrow, secrow, stockrows) ==
    [spy |-> spyrow, sector |-> secrow, stock |-> stockrows]

Tickers(r) == {r.universe[k] : k \in 1..Len(r.universe)}

\* row idx of every frame, as far as the run leaves it open
DayInputs(r, idx) ==
    IF idx < Perf3mPeriods
    THEN {Day(RiskOnRow, SectorUp(idx), [t \in Tickers(r) |-> Flat(r.warmup_close)])}
    ELSE IF r.name = "scenario"
    THEN {Day(RiskOnRow, SectorUp(idx), [t \in Tickers(r) |-> b]) :
             b \in {Touch50, Rally50}}
    ELSE IF r.name = "bigticket"
    THEN {Day(RiskOnRow, SectorUp(idx),
              [t \in Tickers(r) |-> IF t = "AAA" THEN a ELSE Touch]) :
             a \in {Big, Touch}}
    ELSE IF r.name \in {"zerobase", "penny"}
    THEN {Day(RiskOnRow, SectorUp(idx), [t \in Tickers(r) |-> b]) :
             b \in {Touch, Drop}}
    ELSE IF r.name = "filters"
    THEN {Day(RiskOnRow, SectorUp(idx),
              [t \in Tickers(r) |-> IF t = "AAA" THEN b ELSE Touch]) :
             b \in {Touch, Pricey, Thin, GapBelow, NoTouch, Volatile, Drop}}
         \cup
         {Day(m, s, [t \in Tickers(r) |-> Touch]) :
             m \in {RiskOnRow, RiskOffRow},
             s \in {SectorUp(idx), SectorWeak(idx), SectorBad(idx)}}
    ELSE {Day(RiskOnRow, SectorUp(idx),
              [t \in Tickers(r) |-> IF t = "AAA" THEN a ELSE b]) :
             a \in {Touch, Rally, Reversal, Drop, GapDown},
             b \in {Touch, Rally, Drop}}

\* ------------------------------------------------------------------------
\* main(): the ETF list and the frames the data source can deliver
\* ------------------------------------------------------------------------
BaseEnv ==
    [ name |-> "listed",
      sector_etfs |-> {"SPY", "IWM", "XLK", "XLE"},
      market_ticker |-> "IWM",
      stooq |-> {"SPY", "IWM", "XLK"} ]

MainEnvs ==
    { BaseEnv,
      \* the market ticker is not in the list and is fetched on its own
      [BaseEnv EXCEPT !.name = "fallback", !.sector_etfs = {"SPY", "XLK"}],
      \* it is not in the list and the data source does not have it
      [BaseEnv EXCEPT !.name = "absent", !.sector_etfs = {"SPY", "XLK"},
                      !.stooq = {"SPY", "XLK"}],
      \* it is in the list and the data source does not have it
      [BaseEnv EXCEPT !.name = "listed_absent", !.stooq = {"SPY", "XLK"}],
      \* the list lacks SPY
      [BaseEnv EXCEPT !.name = "no_spy", !.sector_etfs = {"IWM", "XLK"}] }

\* etf_dfs after the loop over sector_etfs: a fetch that fails is skipped
EtfDfs(e) == e.sector_etfs \cap e.stooq

\* mutant of LoadMarket: a market ticker that cannot be fetched is passed over
LoadMarket_AssumeLoaded(e) ==
    IF "SPY" \notin e.sector_etfs THEN "ValueError" ELSE ""

\* the exception of main() up to `market_df = etf_dfs[market_ticker]`
LoadMarket(e) ==
    IF "SPY" \notin e.sector_etfs THEN "ValueError"
    ELSE IF e.market_ticker \in EtfDfs(e) THEN ""
    ELSE IF e.market_ticker \in e.stooq THEN ""
    ELSE "RuntimeError"

\* ------------------------------------------------------------------------
\* State of one call of run_backtest
\* ------------------------------------------------------------------------
VARIABLES
    env,                 \* what main() finds: the ETF list, the data source
    error,               \* the exception main() ends with, "" for none
    inputs,              \* the columns of the frames the caller hands over
    run,                 \* the arguments of the call
    pc,                  \* phase of the day loop
    i,                   \* index of the day being simulated
    today,               \* row i of every frame
    prev,                \* row i - 1 of every frame
    cash,
    equity,
    mkt_value,
    risk_on,
    positions,           \* dict ticker -> Position, in insertion order
    trades,
    last_trade_unlocked,
    equity_rows,
    to_close,
    candidates,
    diag_totals,
    diag_by_day,
    passed               \* history: <<day, ticker>> that passed every filter

vars == <<env, error, inputs, run, pc, i, today, prev, cash, equity, mkt_value, risk_on, positions,
          trades, last_trade_unlocked, equity_rows, to_close, candidates,
          diag_totals, diag_by_day, passed>>

Reasons ==
    {"market_risk_off_day", "garden_locked_day", "already_in_position",
     "not_enough_history", "price_above_max", "dollar_vol_below_min",
     "perf_3m_below_min", "no_sector_mapping", "sector_etf_missing",
     "sector_not_strong", "rs_no_prev", "rs_bad_sector_price", "rs_not_up",
     "gap_below_ema21", "no_touch_ema20", "shares_sized_to_zero",
     "not_enough_cash"}

\* Counter()
Counter == [k \in Reasons |-> 0]
CounterAdd(c, k, v) == [c EXCEPT ![k] = @ + v]
CounterMerge(c, more) == [k \in Reasons |-> c[k] + more[k]]

\* defaultdict(Counter): diag_by_day[day][k] += v
ByDayAdd(bd, day, k, v) ==
    IF day \in DOMAIN bd THEN [bd EXCEPT ![day] = CounterAdd(@, k, v)]
    ELSE (day :> CounterAdd(Counter, k, v)) @@ bd
ByDayMerge(bd, day, more) ==
    IF day \in DOMAIN bd THEN [bd EXCEPT ![day] = CounterMerge(@, more)]
    ELSE (day :> CounterMerge(Counter, more)) @@ bd

\* dict operations on the open positions
Keys(ps) == {ps[k].ticker : k \in 1..Len(ps)}
DictGet(ps, t) == ps[CHOOSE k \in 1..Len(ps) : ps[k].ticker = t]
\* mutant of DictPop: the position stays in the dict
DictPop_Keep(ps, t) == ps

DictPop(ps, t) == SelectSeq(ps, LAMBDA p : p.ticker # t)
DictSet(ps, t, p) ==
    IF t \in Keys(ps)
    THEN [k \in 1..Len(ps) |-> IF ps[k].ticker = t THEN p ELSE ps[k]]
    ELSE Append(ps, p)

NoDay(r) == Day(RiskOffRow, SectorUp(0), [t \in Tickers(r) |-> Flat(0)])

\* the columns of a frame as the data source delivers it
BarColumns == {"date", "open", "high", "low", "close", "volume"}

\* sector_dfs: the loaded ETFs without SPY and the market ticker
SectorDfs(e) == EtfDfs(e) \ {"SPY", e.market_ticker}

\* every set of arguments is run after the loading that lists the market
\* ticker; the other outcomes of the loading are followed with one of them
Init ==
    /\ env \in MainEnvs
    /\ error = ""
    /\ inputs = [f \in {"spy", "sector", "stock"} |-> BarColumns]
    /\ run \in Runs
    /\ run.sector_dfs = SectorDfs(env)
    /\ env.name = "listed" \/ run.name = "scenario"
    /\ pc = "main"
    /\ i = 0
    /\ today = NoDay(run)
    /\ prev = NoDay(run)
    /\ cash = run.start_cash
    /\ equity = run.start_cash
    /\ mkt_value = 0
    /\ risk_on = FALSE
    /\ positions = <<>>
    /\ trades = <<>>
    /\ last_trade_unlocked = TRUE
    /\ equity_rows = <<>>
    /\ to_close = <<>>
    /\ candidates = <<>>
    /\ diag_totals = Counter
    /\ diag_by_day = <<>>
    /\ passed = {}

\* ------------------------------------------------------------------------
\* main() up to the call of run_backtest
\* ------------------------------------------------------------------------
Main ==
    /\ pc = "main"
    /\ error' = LoadMarket(env)
    /\ pc' = IF LoadMarket(env) = "" THEN "prepare" ELSE "failed"
    /\ UNCHANGED <<env, inputs, run, i, today, prev, cash, equity, mkt_value, risk_on,
                   positions, trades, last_trade_unlocked, equity_rows, to_close,
                   candidates, diag_totals, diag_by_day, passed>>

\* ------------------------------------------------------------------------
\* run_backtest up to the day loop: the indicator columns
\* ------------------------------------------------------------------------
\* spy = spy.copy() and d = df.copy() write to copies; the loop over
\* sector_dfs.items() writes rs, rs_ema20 and sec_strong to the frames of
\* the caller
PrepareFrames(cols, r) ==
    [cols EXCEPT !.sector =
        IF r.sector_dfs = {} THEN @ ELSE @ \cup {"rs", "rs_ema20", "sec_strong"}]

Prepare ==
    /\ pc = "prepare"
    /\ inputs' = PrepareFrames(inputs, run)
    /\ pc' = "mark"
    /\ UNCHANGED <<env, error, run, i, today, prev, cash, equity, mkt_value,
                   risk_on, positions, trades, last_trade_unlocked, equity_rows,
                   to_close, candidates, diag_totals, diag_by_day, passed>>

\* ------------------------------------------------------------------------
\* The prepared frames
\* ------------------------------------------------------------------------
\* mutant of RegimeRiskOn: equal averages count as risk-on
RegimeRiskOn_NotStrict(spyrow) == spyrow.ema5 >= spyrow.ema10

\* spy["risk_on"] = spy["ema5"] > spy["ema10"]
RegimeRiskOn(spyrow) == spyrow.ema5 > spyrow.ema10

\* sdf["sec_strong"] = sdf["rs_ema20"] > sdf["rs_ema20"].shift(1)
SecStrong(secrow, prevrow, idx) ==
    IF idx = 0 THEN FALSE ELSE secrow.rs_ema20 > prevrow.rs_ema20

\* row idx of prepared[t].  The close Perf3mPeriods days back is a close of
\* the first Perf3mPeriods days (ActiveDays does not exceed Perf3mPeriods).
PreparedRow(r, bar, idx) ==
    [open |-> bar.open, high |-> bar.high, low |-> bar.low, close |-> bar.close,
     ema20 |-> Fin(bar.ema20, 1),
     ema21 |-> Fin(bar.ema21, 1),
     atr14 |-> atr(bar.atr14, idx, AtrPeriod),
     perf_3m |-> percent_change(bar.close, r.warmup_close, idx, Perf3mPeriods),
     dollar_vol |-> bar.close * bar.volume]

\* ------------------------------------------------------------------------
\* mark-to-market
\* ------------------------------------------------------------------------
\* mutant of MarketValue: positions valued at their entry price
RECURSIVE MarketValue_AtCost(_, _)
MarketValue_AtCost(ps, d) ==
    IF ps = <<>> THEN 0
    ELSE Head(ps).shares * Head(ps).entry_price + MarketValue_AtCost(Tail(ps), d)

RECURSIVE MarketValue(_, _)
MarketValue(ps, d) ==
    IF ps = <<>> THEN 0
    ELSE Head(ps).shares * d.stock[Head(ps).ticker].close + MarketValue(Tail(ps), d)

Mark ==
    /\ pc = "mark"
    /\ i < NDays
    /\ \E d \in DayInputs(run, i) :
          /\ today' = d
          /\ mkt_value' = MarketValue(positions, d)
          /\ equity' = cash + MarketValue(positions, d)
          /\ risk_on' = RegimeRiskOn(d.spy)
    /\ pc' = "manage"
    /\ UNCHANGED <<env, error, inputs, run, i, prev, cash, positions, trades, last_trade_unlocked,
                   equity_rows, to_close, candidates, diag_totals, diag_by_day,
                   passed>>

\* ------------------------------------------------------------------------
\* manage open positions (stops & BE)
\* ------------------------------------------------------------------------
\* mutant of BreakevenHit: a position that is armed is armed again
BreakevenHit_Rearm(pos, h) ==
    h * BreakevenFactor[2] >= pos.entry_price * BreakevenFactor[1]

BreakevenHit(pos, h) ==
    (~pos.breakeven_set) /\ h * BreakevenFactor[2] >= pos.entry_price * BreakevenFactor[1]

\* mutant of ManagePos: the stop is moved to the high of the day
ManagePos_TrailHigh(pos, row) ==
    IF BreakevenHit(pos, row.high)
    THEN [pos EXCEPT !.stop_price = row.high, !.breakeven_set = TRUE]
    ELSE pos

\* mutant of ManagePos: the flag is set and the stop is left where it was
ManagePos_KeepStop(pos, row) ==
    IF BreakevenHit(pos, row.high)
    THEN [pos EXCEPT !.breakeven_set = TRUE]
    ELSE pos

ManagePos(pos, row) ==
    IF BreakevenHit(pos, row.high)
    THEN [pos EXCEPT !.stop_price = pos.entry_price, !.breakeven_set = TRUE]
    ELSE pos

\* mutant of StopHit: a stop at the low or at the high of the bar is not hit
StopHit_Strict(pos, row) == row.low < pos.stop_price /\ pos.stop_price < row.high

StopHit(pos, row) == row.low <= pos.stop_price /\ pos.stop_price <= row.high

RECURSIVE StopList(_, _, _)
StopList(ps, d, bps) ==
    IF ps = <<>> THEN <<>>
    ELSE LET pos == Head(ps)
             rest == StopList(Tail(ps), d, bps)
         IN  IF StopHit(pos, d.stock[pos.ticker])
             THEN <<[t |-> pos.ticker,
                     exit_px |-> _slip(pos.stop_price, bps, FALSE),
                     reason |-> "STOP"]>> \o rest
             ELSE rest

Manage ==
    /\ pc = "manage"
    /\ LET managed == [k \in 1..Len(positions) |->
                          ManagePos(positions[k], today.stock[positions[k].ticker])]
       IN  /\ positions' = managed
           /\ last_trade_unlocked' =
                 (last_trade_unlocked \/
                  \E k \in 1..Len(positions) :
                      BreakevenHit(positions[k], today.stock[positions[k].ticker].high))
           /\ to_close' = StopList(managed, today, run.slippage_bps)
    /\ pc' = "close"
    /\ UNCHANGED <<env, error, inputs, run, i, today, prev, cash, equity, mkt_value, risk_on, trades,
                   equity_rows, candidates, diag_totals, diag_by_day, passed>>

\* ------------------------------------------------------------------------
\* closures
\* ------------------------------------------------------------------------
ClosePnl(pos, exit_px, fees) == (exit_px - pos.entry_price) * pos.shares - fees

ClosePnlPct(pos, exit_px) == Fin(exit_px - pos.entry_price, pos.entry_price)

\* mutant of CloseTrade: the Trade is dated on the day of the entry
CloseTrade_ExitOnEntryDate(pos, exit_px, day, reason, r) ==
    LET fees == _commission(pos.shares, r.commission_per_share, r.commission_min)
    IN  [ticker |-> pos.ticker,
         entry_date |-> pos.entry_date,
         entry_price |-> pos.entry_price,
         exit_date |-> pos.entry_date,
         exit_price |-> exit_px,
         shares |-> pos.shares,
         pnl |-> ClosePnl(pos, exit_px, fees),
         pnl_pct |-> ClosePnlPct(pos, exit_px),
         reason |-> reason]

CloseTrade(pos, exit_px, day, reason, r) ==
    LET fees == _commission(pos.shares, r.commission_per_share, r.commission_min)
    IN  [ticker |-> pos.ticker,
         entry_date |-> pos.entry_date,
         entry_price |-> pos.entry_price,
         exit_date |-> day,
         exit_price |-> exit_px,
         shares |-> pos.shares,
         pnl |-> ClosePnl(pos, exit_px, fees),
         pnl_pct |-> ClosePnlPct(pos, exit_px),
         reason |-> reason]

\* mutant of CloseCash: the commission of the exit is not charged
CloseCash_NoFee(c, pos, exit_px, r) == c + pos.shares * exit_px

\* cash += pos.shares * exit_px - fees
CloseCash(c, pos, exit_px, r) ==
    c + pos.shares * exit_px
      - _commission(pos.shares, r.commission_per_share, r.commission_min)

\* for t, exit_px, reason in to_close: ...
RECURSIVE CloseLoop(_, _, _, _, _, _)
CloseLoop(tc, c, ps, tr, day, r) ==
    IF tc = <<>> THEN [cash |-> c, positions |-> ps, trades |-> tr]
    ELSE LET e == Head(tc)
             pos == DictGet(ps, e.t)
         IN  CloseLoop(Tail(tc),
                       CloseCash(c, pos, e.exit_px, r),
                       DictPop(ps, e.t),
                       Append(tr, CloseTrade(pos, e.exit_px, day, e.reason, r)),
                       day, r)

Close ==
    /\ pc = "close"
    /\ LET out == CloseLoop(to_close, cash, positions, trades, i, run)
       IN  /\ cash' = out.cash
           /\ positions' = out.positions
           /\ trades' = out.trades
    /\ pc' = "remark"
    /\ UNCHANGED <<env, error, inputs, run, i, today, prev, equity, mkt_value, risk_on,
                   last_trade_unlocked, equity_rows, to_close, candidates,
                   diag_totals, diag_by_day, passed>>

\* update equity after closes
Remark ==
    /\ pc = "remark"
    /\ mkt_value' = MarketValue(positions, today)
    /\ equity' = cash + MarketValue(positions, today)
    /\ pc' = "entry"
    /\ UNCHANGED <<env, error, inputs, run, i, today, prev, cash, risk_on, positions, trades,
                   last_trade_unlocked, equity_rows, to_close, candidates,
                   diag_totals, diag_by_day, passed>>

\* ------------------------------------------------------------------------
\* candidate screening
\* ------------------------------------------------------------------------
\* mutant of NotEnoughHistory: undefined indicators are let through
NotEnoughHistory_Never(row) == FALSE

\* np.isnan(row["ema20"]) or np.isnan(row["atr14"]) or ...
NotEnoughHistory(row) ==
    isnan(row.ema20) \/ isnan(row.atr14) \/ isnan(row.perf_3m) \/ isnan(row.ema21)

\* the first failing test of ticker t on day idx, "" when it passes them all
\* (the tests that follow the check for an open position of t)
ScreenFree(t, r, d, pv, idx) ==
    LET row == PreparedRow(r, d.stock[t], idx)
        sec == r.ticker_to_sector[t]
        sec_close == d.sector.close
        prev_sec_close == pv.sector.close
        limit_px == row.ema20.n
    IN  IF NotEnoughHistory(row) THEN "not_enough_history"
        ELSE IF row.close > r.price_max THEN "price_above_max"
        ELSE IF row.dollar_vol < r.min_dollar_volume THEN "dollar_vol_below_min"
        ELSE IF FloatLess(row.perf_3m, Fin(r.perf_3m_min[1], r.perf_3m_min[2]))
        THEN "perf_3m_below_min"
        ELSE IF sec = "" THEN "no_sector_mapping"
        ELSE IF sec \notin r.sector_dfs THEN "sector_etf_missing"
        ELSE IF ~SecStrong(d.sector, pv.sector, idx) THEN "sector_not_strong"
        ELSE IF idx = 0 THEN "rs_no_prev"
        ELSE IF sec_close <= 0 \/ prev_sec_close <= 0 THEN "rs_bad_sector_price"
        ELSE IF ~(row.close * prev_sec_close > pv.stock[t].close * sec_close)
        THEN "rs_not_up"
        ELSE IF row.open < row.ema21.n THEN "gap_below_ema21"
        ELSE IF ~(row.low <= limit_px /\ limit_px <= row.high) THEN "no_touch_ema20"
        ELSE ""

\* mutant of Screen: a ticker that is already held is screened like the others
Screen_NoHeldCheck(t, r, d, pv, idx, ps) == ScreenFree(t, r, d, pv, idx)

\* if t in positions: ... continue, then the tests of a ticker that is not held
Screen(t, r, d, pv, idx, ps) ==
    IF t \in Keys(ps) THEN "already_in_position"
    ELSE ScreenFree(t, r, d, pv, idx)

\* for t, df in prepared.items(): ... candidates.append((t, limit_px))
RECURSIVE Candidates(_, _, _, _, _, _)
Candidates(u, r, d, pv, idx, ps) ==
    IF u = <<>> THEN <<>>
    ELSE LET rest == Candidates(Tail(u), r, d, pv, idx, ps)
         IN  IF Screen(Head(u), r, d, pv, idx, ps) = ""
             THEN <<[t |-> Head(u), limit_px |-> d.stock[Head(u)].ema20]>> \o rest
             ELSE rest

DayReasons(r, d, pv, idx, ps) ==
    [k \in Reasons |->
        Cardinality({n \in 1..Len(r.universe) :
                        Screen(r.universe[n], r, d, pv, idx, ps) = k})]

\* candidates.sort(key=perf_3m, reverse=True): stable, descending
PerfKey(c, r, d, idx) == PreparedRow(r, d.stock[c.t], idx).perf_3m

\* mutant of SortInsert: the candidates stay in the order of the universe
SortInsert_NoSort(sorted, c, r, d, idx) == Append(sorted, c)

SortInsert(sorted, c, r, d, idx) ==
    LET ahead == Cardinality({n \in 1..Len(sorted) :
                    ~FloatLess(PerfKey(sorted[n], r, d, idx), PerfKey(c, r, d, idx))})
    IN  SubSeq(sorted, 1, ahead) \o <<c>> \o SubSeq(sorted, ahead + 1, Len(sorted))

RECURSIVE SortByPerf(_, _, _, _)
SortByPerf(cs, r, d, idx) ==
    IF cs = <<>> THEN <<>>
    ELSE SortInsert(SortByPerf(SubSeq(cs, 1, Len(cs) - 1), r, d, idx),
                    cs[Len(cs)], r, d, idx)

\* ------------------------------------------------------------------------
\* position sizing
\* ------------------------------------------------------------------------
\* mutant of StopPx: the fallback to 90% of the limit is left out
StopPx_NoFallback(limit_px, a) == limit_px - a

StopPx(limit_px, a) ==
    IF limit_px - a <= 0
    THEN ExactDiv(limit_px * StopFallbackFactor[1], StopFallbackFactor[2])
    ELSE limit_px - a

RiskPerShare(limit_px, stop_px) == Max(MinRiskPerShare, limit_px - stop_px)

\* int((equity * risk_per_trade) // risk_per_share)
SharesByRisk(eq, risk_per_share, r) ==
    (eq * r.risk_per_trade[1]) \div (r.risk_per_trade[2] * risk_per_share)

\* int((equity * max_position_pct) // limit_px)
SharesBySize(eq, limit_px, r) ==
    (eq * r.max_position_pct[1]) \div (r.max_position_pct[2] * limit_px)

\* mutant of SizeShares: the cap on the position size is left out
SizeShares_RiskOnly(eq, limit_px, stop_px, r) ==
    Max(0, SharesByRisk(eq, RiskPerShare(limit_px, stop_px), r))

SizeShares(eq, limit_px, stop_px, r) ==
    Max(0, Min(SharesByRisk(eq, RiskPerShare(limit_px, stop_px), r),
               SharesBySize(eq, limit_px, r)))

EntryPx(limit_px, r) == _slip(limit_px, r.slippage_bps, TRUE)

EntryCost(shares, entry_px, r) ==
    shares * entry_px + _commission(shares, r.commission_per_share, r.commission_min)

NewPosition(t, day, entry_px, shares, stop_px) ==
    [ticker |-> t, entry_date |-> day, entry_price |-> entry_px,
     shares |-> shares, stop_price |-> stop_px, breakeven_set |-> FALSE]

\* mutant of SkipEntry: the gate is locked though nothing was bought
SkipEntry_Lock(c0, ps, unlocked, reason) ==
    [cash |-> c0, positions |-> ps, unlocked |-> FALSE, diag |-> reason]

\* no trade: the reason is counted and the state is left as it is
SkipEntry(c0, ps, unlocked, reason) ==
    [cash |-> c0, positions |-> ps, unlocked |-> unlocked, diag |-> reason]

\* mutant of GateAfterEntry: an entry leaves the gate as it was
GateAfterEntry_Open(unlocked) == unlocked

\* last_trade_unlocked = False
GateAfterEntry(unlocked) == FALSE

\* mutant of TryEntry: a second ticker that is not held is bought along with
\* the selected candidate
TryEntry_Twice(c, r, d, idx, c0, eq, ps, unlocked) ==
    LET limit_px == c.limit_px
        a == PreparedRow(r, d.stock[c.t], idx).atr14.n
        stop_px == StopPx(limit_px, a)
        shares == SizeShares(eq, limit_px, stop_px, r)
        entry_px == EntryPx(limit_px, r)
        cost == EntryCost(shares, entry_px, r)
        first == DictSet(ps, c.t, NewPosition(c.t, idx, entry_px, shares, stop_px))
        others == Tickers(r) \ (Keys(ps) \cup {c.t})
    IN  IF shares <= 0
        THEN SkipEntry(c0, ps, unlocked, "shares_sized_to_zero")
        ELSE IF cost > c0
        THEN SkipEntry(c0, ps, unlocked, "not_enough_cash")
        ELSE [cash |-> c0 - cost,
              positions |->
                  IF others = {} THEN first
                  ELSE Append(first, NewPosition(CHOOSE t \in others : TRUE,
                                                 idx, entry_px, shares, stop_px)),
              unlocked |-> GateAfterEntry(unlocked),
              diag |-> ""]

\* the entry for the first of the sorted candidates: the state it leaves and
\* the diagnostic counted when no trade is made
TryEntry(c, r, d, idx, c0, eq, ps, unlocked) ==
    LET limit_px == c.limit_px
        a == PreparedRow(r, d.stock[c.t], idx).atr14.n
        stop_px == StopPx(limit_px, a)
        shares == SizeShares(eq, limit_px, stop_px, r)
        entry_px == EntryPx(limit_px, r)
        cost == EntryCost(shares, entry_px, r)
    IN  IF shares <= 0
        THEN SkipEntry(c0, ps, unlocked, "shares_sized_to_zero")
        ELSE IF cost > c0
        THEN SkipEntry(c0, ps, unlocked, "not_enough_cash")
        ELSE [cash |-> c0 - cost,
              positions |-> DictSet(ps, c.t,
                                NewPosition(c.t, idx, entry_px, shares, stop_px)),
              unlocked |-> GateAfterEntry(unlocked),
              diag |-> ""]

\* ------------------------------------------------------------------------
\* entries
\* ------------------------------------------------------------------------
\* diag_totals[k] += 1; diag_by_day[day][k] += 1 for the days entries are
\* not allowed on
GateTotals(t0, on, unlocked) ==
    LET t1 == IF ~on THEN CounterAdd(t0, "market_risk_off_day", 1) ELSE t0
    IN  IF ~unlocked THEN CounterAdd(t1, "garden_locked_day", 1) ELSE t1

GateByDay(b0, day, on, unlocked) ==
    LET b1 == IF ~on THEN ByDayAdd(b0, day, "market_risk_off_day", 1) ELSE b0
    IN  IF ~unlocked THEN ByDayAdd(b1, day, "garden_locked_day", 1) ELSE b1

\* mutant of EntryAllowed: the gate is not consulted
EntryAllowed_IgnoreGate(on, unlocked) == on

EntryAllowed(on, unlocked) == on /\ unlocked

Entry ==
    /\ pc = "entry"
    /\ LET totals == GateTotals(diag_totals, risk_on, last_trade_unlocked)
           byday == GateByDay(diag_by_day, i, risk_on, last_trade_unlocked)
       IN  IF EntryAllowed(risk_on, last_trade_unlocked)
           THEN LET cands == Candidates(run.universe, run, today, prev, i, positions)
                    day_reasons == DayReasons(run, today, prev, i, positions)
                IN  /\ passed' = passed \cup {<<i, cands[n].t>> : n \in 1..Len(cands)}
                    /\ IF cands = <<>>
                       THEN /\ candidates' = cands
                            /\ diag_totals' = CounterMerge(totals, day_reasons)
                            /\ diag_by_day' = ByDayMerge(byday, i, day_reasons)
                            /\ UNCHANGED <<cash, positions, last_trade_unlocked>>
                       ELSE LET sorted == SortByPerf(cands, run, today, i)
                                out == TryEntry(sorted[1], run, today, i, cash, equity,
                                                positions, last_trade_unlocked)
                            IN  /\ candidates' = sorted
                                /\ cash' = out.cash
                                /\ positions' = out.positions
                                /\ last_trade_unlocked' = out.unlocked
                                /\ diag_totals' =
                                      IF out.diag = "" THEN totals
                                      ELSE CounterAdd(totals, out.diag, 1)
                                /\ diag_by_day' =
                                      IF out.diag = "" THEN byday
                                      ELSE ByDayAdd(byday, i, out.diag, 1)
           ELSE /\ diag_totals' = totals
                /\ diag_by_day' = byday
                /\ UNCHANGED <<cash, positions, last_trade_unlocked, candidates, passed>>
    /\ pc' = "record"
    /\ UNCHANGED <<env, error, inputs, run, i, today, prev, equity, mkt_value, risk_on, trades,
                   equity_rows, to_close>>

\* ------------------------------------------------------------------------
\* the day's equity row
\* ------------------------------------------------------------------------
\* mutant of EquityRow: the equity column takes the market value
EquityRow_WrongColumn(day, c, mv, eq, ps, on) ==
    [date |-> day, cash |-> c, market_value |-> mv, equity |-> mv,
     positions |-> Len(ps), risk_on |-> on]

EquityRow(day, c, mv, eq, ps, on) ==
    [date |-> day, cash |-> c, market_value |-> mv, equity |-> eq,
     positions |-> Len(ps), risk_on |-> on]

Record ==
    /\ pc = "record"
    /\ equity_rows' = Append(equity_rows,
                             EquityRow(i, cash, mkt_value, equity, positions, risk_on))
    /\ prev' = today
    /\ i' = i + 1
    /\ pc' = IF i + 1 < NDays THEN "mark" ELSE "liquidate"
    /\ UNCHANGED <<env, error, inputs, run, today, cash, equity, mkt_value, risk_on, positions, trades,
                   last_trade_unlocked, to_close, candidates, diag_totals,
                   diag_by_day, passed>>

\* ------------------------------------------------------------------------
\* EOD liquidation
\* ------------------------------------------------------------------------
\* for t, pos in list(positions.items()): close at the last close
RECURSIVE LiquidationList(_, _, _)
LiquidationList(ps, d, bps) ==
    IF ps = <<>> THEN <<>>
    ELSE <<[t |-> Head(ps).ticker,
            exit_px |-> _slip(d.stock[Head(ps).ticker].close, bps, FALSE),
            reason |-> "EOD_LIQUIDATION"]>> \o LiquidationList(Tail(ps), d, bps)

\* mutant of FinalRow: the market value and the count are left as recorded
FinalRow_KeepValue(row, c) == [row EXCEPT !.cash = c, !.equity = c]

\* equity_rows[-1] after the liquidation
FinalRow(row, c) ==
    [row EXCEPT !.cash = c, !.market_value = 0, !.equity = c, !.positions = 0]

Liquidate ==
    /\ pc = "liquidate"
    /\ IF positions # <<>>
       THEN LET last_i == NDays - 1
                out == CloseLoop(LiquidationList(positions, today, run.slippage_bps),
                                 cash, positions, trades, last_i, run)
            IN  /\ cash' = out.cash
                /\ positions' = out.positions
                /\ trades' = out.trades
                /\ equity_rows' =
                      IF equity_rows # <<>>
                      THEN [equity_rows EXCEPT ![Len(equity_rows)] = FinalRow(@, out.cash)]
                      ELSE equity_rows
       ELSE UNCHANGED <<cash, positions, trades, equity_rows>>
    /\ pc' = "done"
    /\ UNCHANGED <<env, error, inputs, run, i, today, prev, equity, mkt_value, risk_on,
                   last_trade_unlocked, to_close, candidates, diag_totals,
                   diag_by_day, passed>>

Next == Main \/ Prepare \/ Mark \/ Manage \/ Close \/ Remark \/ Entry \/ Record \/ Liquidate

Spec == Init /\ [][Next]_vars

\* ========================================================================
\* Properties
\* ========================================================================
\* sum of shares * today's close over the first n open positions
RECURSIVE OpenValueUpTo(_)
OpenValueUpTo(n) ==
    IF n = 0 THEN 0
    ELSE positions[n].shares * today.stock[positions[n].ticker].close
         + OpenValueUpTo(n - 1)

OpenValue == OpenValueUpTo(Len(positions))

\* C1: on every day, right after the mark-to-market step (before the risk
\* pass and the closures) and right after the re-mark that follows the
\* closures, equity = cash + sum of shares * close over the open positions.
C1_Conservation ==
    pc \in {"manage", "entry"} => equity = cash + OpenValue

\* C1 witness: the re-mark after a day's closures with a position still open
C1_Witness ==
    /\ pc = "entry"
    /\ to_close # <<>>
    /\ positions # <<>>
    /\ equity = cash + OpenValue

\* C2 (as claimed): every equity row has equity = cash + market_value, and the
\* row recorded last counts in market_value exactly the positions it counts
\* as open, a position opened that day included.
C2_RowAfterAllChanges ==
    /\ \A k \in 1..Len(equity_rows) :
          equity_rows[k].equity = equity_rows[k].cash + equity_rows[k].market_value
    /\ (pc = "mark" /\ equity_rows # <<>>) =>
          /\ equity_rows[Len(equity_rows)].positions = Len(positions)
          /\ equity_rows[Len(equity_rows)].market_value = OpenValue

\* C3: a step of the entry phase that opens a position starts with the gate
\* unlocked and leaves it locked; the gate goes from locked to unlocked only
\* in a step in which an open position arms its breakeven.
EntryOpens == pc = "entry" /\ positions' # positions

ArmsBreakeven ==
    \E k \in 1..Len(positions) :
        /\ k <= Len(positions')
        /\ positions'[k].ticker = positions[k].ticker
        /\ ~positions[k].breakeven_set
        /\ positions'[k].breakeven_set

C3_GateLockedUntilBreakeven ==
    [][ /\ EntryOpens => (last_trade_unlocked /\ ~last_trade_unlocked')
        /\ (~last_trade_unlocked /\ last_trade_unlocked') => ArmsBreakeven
      ]_vars

\* C3 witness: the entry phase has run with the gate locked by an earlier
\* entry, a ticker that is not held passes every filter, and nothing is opened
C3_Witness ==
    /\ pc = "record"
    /\ ~last_trade_unlocked
    /\ positions # <<>>
    /\ \A k \in 1..Len(positions) : positions[k].entry_date < i
    /\ \E t \in Tickers(run) \ Keys(positions) :
          ScreenFree(t, run, today, prev, i) = ""

\* C4: no ticker is held twice, and a step of the entry phase that changes
\* the open positions adds one position, of a ticker that was not held, and
\* leaves the others as they were.
NoTickerTwice(ps) ==
    \A j, k \in 1..Len(ps) : ps[j].ticker = ps[k].ticker => j = k

C4_OnePositionPerTicker ==
    [][ /\ NoTickerTwice(positions) /\ NoTickerTwice(positions')
        /\ EntryOpens =>
              /\ Len(positions') = Len(positions) + 1
              /\ SubSeq(positions', 1, Len(positions)) = positions
              /\ positions'[Len(positions')].ticker \notin Keys(positions)
      ]_vars

\* C4 witness: with the gate open, a held ticker would pass every other
\* filter and is not taken; another ticker is entered next to it
C4_Witness ==
    /\ pc = "record"
    /\ Len(positions) = 2
    /\ positions[2].entry_date = i
    /\ ScreenFree(positions[1].ticker, run, today, prev, i) = ""

\* C5: the liquidation step empties the open positions, appends for each of
\* them, in order, a Trade with reason EOD_LIQUIDATION dated on the last day
\* at the slippage-adjusted last close, and leaves a final equity row with
\* market_value = 0, positions = 0 and equity = cash.
C5_EodLiquidation ==
    [][ pc = "liquidate" =>
          /\ positions' = <<>>
          /\ Len(trades') = Len(trades) + Len(positions)
          /\ SubSeq(trades', 1, Len(trades)) = trades
          /\ \A k \in 1..Len(positions) :
                LET tr == trades'[Len(trades) + k]
                    c == today.stock[positions[k].ticker].close
                IN  /\ tr.ticker = positions[k].ticker
                    /\ tr.reason = "EOD_LIQUIDATION"
                    /\ tr.exit_date = NDays - 1
                    /\ tr.exit_price * BpsDenominator
                          = c * (BpsDenominator - run.slippage_bps)
          /\ LET last == equity_rows'[Len(equity_rows')]
             IN  /\ last.date = NDays - 1
                 /\ last.market_value = 0
                 /\ last.positions = 0
                 /\ last.equity = cash'
                 /\ last.cash = cash'
      ]_vars

\* C5 witness: the run has ended with two positions liquidated, one of them
\* open since an earlier day
C5_Witness ==
    /\ pc = "done"
    /\ Len(trades) >= 2
    /\ trades[Len(trades)].reason = "EOD_LIQUIDATION"
    /\ trades[Len(trades) - 1].reason = "EOD_LIQUIDATION"
    /\ trades[Len(trades) - 1].entry_date < NDays - 1

\* commission of one leg of a trade of n shares, from the run's arguments
LegCommission(n) ==
    IF n * run.commission_per_share > run.commission_min
    THEN n * run.commission_per_share ELSE run.commission_min

\* C6 (as claimed): for every Trade, pnl = (exit_price - entry_price) * shares
\* minus the commission of the entry leg and of the exit leg, and
\* pnl_pct = (exit_price - entry_price) / entry_price.
C6_PnlNetOfBothLegs ==
    \A k \in 1..Len(trades) :
        LET tr == trades[k]
        IN  /\ tr.pnl = (tr.exit_price - tr.entry_price) * tr.shares
                          - 2 * LegCommission(tr.shares)
            /\ tr.pnl_pct.k = "fin"
            /\ tr.pnl_pct.n * tr.entry_price
                  = (tr.exit_price - tr.entry_price) * tr.pnl_pct.d

RECURSIVE SumPnlUpTo(_)
SumPnlUpTo(n) == IF n = 0 THEN 0 ELSE trades[n].pnl + SumPnlUpTo(n - 1)

\* C7 (as claimed): at the end of a run the final equity row's equity minus
\* start_cash equals the sum of pnl over the trade ledger.
C7_CurveMatchesLedger ==
    (pc = "done" /\ equity_rows # <<>>) =>
        equity_rows[Len(equity_rows)].equity - run.start_cash
            = SumPnlUpTo(Len(trades))

\* C8: with slippage_bps >= 0 and positive quoted prices, the fill of an entry
\* is at or above the limit price, the fill of a STOP is at or below the stop
\* price and the fill of an EOD_LIQUIDATION at or below the last close; a fill
\* equals its quoted price exactly when slippage_bps = 0.
AdverseBuy(fill, quoted) ==
    fill >= quoted /\ (fill = quoted <=> run.slippage_bps = 0)

AdverseSell(fill, quoted) ==
    fill <= quoted /\ (fill = quoted <=> run.slippage_bps = 0)

C8_SlippageAdverse ==
    /\ (pc = "record" /\ positions # <<>>
            /\ positions[Len(positions)].entry_date = i) =>
          AdverseBuy(positions[Len(positions)].entry_price, candidates[1].limit_px)
    /\ pc = "close" =>
          \A k \in 1..Len(to_close) :
              AdverseSell(to_close[k].exit_px,
                          DictGet(positions, to_close[k].t).stop_price)
    /\ pc = "remark" =>
          \A k \in 1..Len(to_close) :
              LET tr == trades[Len(trades) - Len(to_close) + k]
              IN  tr.reason = "STOP" /\ tr.exit_price = to_close[k].exit_px
    /\ pc = "done" =>
          \A k \in 1..Len(trades) :
              trades[k].reason # "STOP" =>
                  /\ trades[k].reason = "EOD_LIQUIDATION"
                  /\ AdverseSell(trades[k].exit_price,
                                 today.stock[trades[k].ticker].close)

\* C8 witness: a run with slippage has ended with a STOP fill and an
\* EOD_LIQUIDATION fill in the ledger, both below the entry fill's quote
C8_Witness ==
    /\ pc = "done"
    /\ run.slippage_bps > 0
    /\ \E k \in 1..Len(trades) : trades[k].reason = "STOP"
    /\ \E k \in 1..Len(trades) : trades[k].reason = "EOD_LIQUIDATION"

\* C9: an entry sizes the first of the sorted candidates on the equity
\* re-marked after the day's closures: shares = max(0, min(floor(equity *
\* risk_per_trade / max(0.01, limit - stop)), floor(equity * max_position_pct
\* / limit))), fill = limit * (1 + slippage_bps / 10000), commission =
\* max(commission_min, shares * commission_per_share), and cash falls by
\* exactly shares * fill + commission.  With equity 100,000, EMA20 50.00,
\* ATR14 2.00, risk 0.02, cap 0.10, 2 bps, 0.005 a share and minimum 1.00:
\* stop 48.00, 200 shares, fill 50.01, debit 10,003.00.
C9_SizingAndDebit ==
    [][ EntryOpens =>
          LET pos == positions'[Len(positions')]
              limit == candidates'[1].limit_px
              a == today.stock[pos.ticker].atr14
              eq == cash + OpenValue
              stop == IF limit - a > 0 THEN limit - a ELSE (9 * limit) \div 10
              rps == IF limit - stop > 10 THEN limit - stop ELSE 10
              by_risk == (eq * run.risk_per_trade[1])
                            \div (run.risk_per_trade[2] * rps)
              by_size == (eq * run.max_position_pct[1])
                            \div (run.max_position_pct[2] * limit)
              capped == IF by_risk < by_size THEN by_risk ELSE by_size
          IN  /\ pos.ticker = candidates'[1].t
              /\ pos.shares = (IF capped > 0 THEN capped ELSE 0)
              /\ pos.stop_price = stop
              /\ pos.entry_price * BpsDenominator
                    = limit * (BpsDenominator + run.slippage_bps)
              /\ cash' = cash - (pos.shares * pos.entry_price
                                   + LegCommission(pos.shares))
              /\ ( /\ eq = 100000000 /\ limit = 50000 /\ a = 2000
                    /\ run.risk_per_trade = <<2, 100>>
                    /\ run.max_position_pct = <<10, 100>>
                    /\ run.slippage_bps = 2
                    /\ run.commission_per_share = 5
                    /\ run.commission_min = 1000 ) =>
                    /\ pos.stop_price = 48000
                    /\ pos.shares = 200
                    /\ pos.entry_price = 50010
                    /\ cash - cash' = 10003000
      ]_vars

\* C9 witness: the scenario's entry has been made
C9_Witness ==
    /\ pc = "record"
    /\ run.slippage_bps = 2
    /\ Len(positions) = 1
    /\ positions[1].entry_date = i
    /\ equity = 100000000
    /\ positions[1].shares = 200
    /\ positions[1].stop_price = 48000
    /\ positions[1].entry_price = 50010
    /\ cash = 100000000 - 10003000

\* C10: as long as no ticker has passed the full filter cascade on any day,
\* the ledger is empty, no position is open, and every equity row has
\* market_value = 0, positions = 0 and cash = equity = start_cash.
C10_ZeroTradeRunIsFlat ==
    passed = {} =>
        /\ trades = <<>>
        /\ positions = <<>>
        /\ cash = run.start_cash
        /\ \A k \in 1..Len(equity_rows) :
              /\ equity_rows[k].market_value = 0
              /\ equity_rows[k].positions = 0
              /\ equity_rows[k].cash = run.start_cash
              /\ equity_rows[k].equity = run.start_cash

\* C10 witness: a run has ended in which tickers were screened on the days
\* that have the history and none ever passed
C10_Witness ==
    /\ pc = "done"
    /\ passed = {}
    /\ Len(equity_rows) = NDays
    /\ diag_totals["perf_3m_below_min"] > 0

\* C11 (as claimed): no position is opened with an entry_date equal to the
\* exit_date of a STOP Trade of the same ticker, be the position still open
\* or already in the ledger.
C11_NoSameDayReentry ==
    \A k \in 1..Len(trades) :
        trades[k].reason = "STOP" =>
            /\ \A j \in 1..Len(positions) :
                  positions[j].ticker = trades[k].ticker =>
                      positions[j].entry_date # trades[k].exit_date
            /\ \A j \in 1..Len(trades) :
                  trades[j].ticker = trades[k].ticker =>
                      trades[j].entry_date # trades[k].exit_date

\* C12: a step of the entry phase that opens a position is taken on a day
\* whose reference row has ema5 > ema10, strictly, and with the gate unlocked
\* as the day's risk pass has left it.
C12_EntryNeedsRegimeAndGate ==
    [][ EntryOpens =>
          /\ today.spy.ema5 > today.spy.ema10
          /\ risk_on
          /\ last_trade_unlocked
      ]_vars

\* C12 witness: on a day with ema5 = ema10 and the gate unlocked, a ticker
\* that is not held passes every filter and the entry phase has opened nothing
C12_Witness ==
    /\ pc = "record"
    /\ today.spy.ema5 = today.spy.ema10
    /\ last_trade_unlocked
    /\ positions = <<>>
    /\ \E t \in Tickers(run) : ScreenFree(t, run, today, prev, i) = ""

\* number of positions, open or closed, that were opened on day d
EntriesOn(d) ==
    Cardinality({j \in 1..Len(positions) : positions[j].entry_date = d})
    + Cardinality({k \in 1..Len(trades) : trades[k].entry_date = d})

\* C13: on no day is more than one position opened, however many tickers
\* pass the filter cascade that day.
C13_OneEntryPerDay ==
    \A d \in 0..(NDays - 1) : EntriesOn(d) <= 1

\* C13 witness: two tickers have passed every filter on the same day and one
\* position has been opened
C13_Witness ==
    /\ pc = "record"
    /\ Cardinality({t \in Tickers(run) : <<i, t>> \in passed}) >= 2
    /\ EntriesOn(i) = 1

\* a position is known by its ticker and its entry date, as an open position
\* and as a Trade
PosId(p) == <<p.ticker, p.entry_date>>
OpenIds(ps) == {PosId(ps[k]) : k \in 1..Len(ps)}
LedgerIds(tr) == {PosId(tr[k]) : k \in 1..Len(tr)}

\* C14: at the end of the run no position is open; until then a position
\* that was opened stays open or in the ledger; every step appends
\* exactly one Trade, with reason STOP or EOD_LIQUIDATION, for each position
\* it closes and no other; no position is twice in the ledger or both open
\* and in the ledger, so the Trades at the end are as many as the entries;
\* the Trades in the ledger are never changed, and their exit dates never
\* decrease along the ledger.
C14_EveryEntryClosedOnce ==
    /\ [](pc = "done" => positions = <<>>)
    /\ [](Cardinality(OpenIds(positions) \cup LedgerIds(trades))
              = Len(positions) + Len(trades))
    /\ [](\A j, k \in 1..Len(trades) :
              j <= k => trades[j].exit_date <= trades[k].exit_date)
    /\ [][ LET closed == OpenIds(positions) \ OpenIds(positions')
               added == (Len(trades) + 1)..Len(trades')
           IN  /\ Len(trades') >= Len(trades)
               /\ SubSeq(trades', 1, Len(trades)) = trades
               /\ (OpenIds(positions) \cup LedgerIds(trades))
                     \subseteq (OpenIds(positions') \cup LedgerIds(trades'))
               /\ Len(trades') - Len(trades) = Cardinality(closed)
               /\ \A id \in closed :
                     Cardinality({k \in added : PosId(trades'[k]) = id}) = 1
               /\ \A k \in added :
                     trades'[k].reason \in {"STOP", "EOD_LIQUIDATION"}
         ]_vars

\* C14 witness: a run has ended with a position closed by STOP and, after it,
\* one closed by the liquidation, and nothing is open
C14_Witness ==
    /\ pc = "done"
    /\ positions = <<>>
    /\ \E j, k \in 1..Len(trades) :
          /\ j < k
          /\ trades[j].reason = "STOP"
          /\ trades[k].reason = "EOD_LIQUIDATION"
          /\ trades[j].exit_date < trades[k].exit_date

C16_MissingMarketFailsFast ==
    /\ []( ( /\ env.market_ticker \notin (env.sector_etfs \cap env.stooq)
             /\ env.market_ticker \notin env.stooq ) =>
              /\ pc \in {"main", "failed"}
              /\ pc = "failed" => error \in {"RuntimeError", "ValueError"}
              /\ equity_rows = <<>>
              /\ trades = <<>>
              /\ positions = <<>> )
    /\ [][ ( /\ pc = "main"
             /\ env.market_ticker \notin env.stooq ) =>
              /\ pc' = "failed"
              /\ error' # ""
         ]_vars

\* C16 witness: main() has ended with RuntimeError for a market ticker that
\* is in no loaded frame and cannot be fetched, SPY being in the list
C16_Witness ==
    /\ pc = "failed"
    /\ error = "RuntimeError"
    /\ "SPY" \in env.sector_etfs
    /\ env.market_ticker \notin env.stooq
    /\ equity_rows = <<>>

\* C17: at most one open position has its breakeven unarmed, and whenever the
\* gate is unlocked every open position has its breakeven armed.
C17_OneUnconfirmedPosition ==
    /\ Cardinality({k \in 1..Len(positions) : ~positions[k].breakeven_set}) <= 1
    /\ last_trade_unlocked =>
          \A k \in 1..Len(positions) : positions[k].breakeven_set

\* C17 witness: two positions are open, the older armed and the newer not,
\* and the gate is locked
C17_Witness ==
    /\ Len(positions) = 2
    /\ positions[1].breakeven_set
    /\ ~positions[2].breakeven_set
    /\ ~last_trade_unlocked

\* C18: the risk pass changes a position only by arming it: a position that
\* is not armed and whose high of the day is >= entry_price * 1.01 gets
\* stop_price = entry_price and its flag set, and the gate is unlocked after
\* the pass; every other position is left as it is.  A position is armed in
\* no other step; once armed it stays armed with the same stop, and an armed
\* position has stop_price = entry_price.
C18_BreakevenArming ==
    /\ [](\A k \in 1..Len(positions) :
              positions[k].breakeven_set =>
                  positions[k].stop_price = positions[k].entry_price)
    /\ [][ /\ pc = "manage" =>
                /\ Len(positions') = Len(positions)
                /\ \A k \in 1..Len(positions) :
                      LET p == positions[k]
                          q == positions'[k]
                          h == today.stock[p.ticker].high
                      IN  IF ~p.breakeven_set /\ h * 100 >= p.entry_price * 101
                          THEN /\ q = [p EXCEPT !.stop_price = p.entry_price,
                                                !.breakeven_set = TRUE]
                               /\ last_trade_unlocked'
                          ELSE q = p
           /\ \A k \in 1..Len(positions), j \in 1..Len(positions') :
                 PosId(positions[k]) = PosId(positions'[j]) =>
                     /\ positions[k].breakeven_set =>
                           /\ positions'[j].breakeven_set
                           /\ positions'[j].stop_price = positions[k].stop_price
                     /\ (~positions[k].breakeven_set /\ positions'[j].breakeven_set)
                           => pc = "manage"
         ]_vars

\* C18 witness: the risk pass has just armed a position bought the day
\* before, whose stop was below its entry price until then
C18_Witness ==
    /\ pc = "close"
    /\ last_trade_unlocked
    /\ \E k \in 1..Len(positions) :
          /\ positions[k].entry_date = i - 1
          /\ positions[k].breakeven_set
          /\ positions[k].stop_price = positions[k].entry_price
          /\ today.stock[positions[k].ticker].high * 100
                >= positions[k].entry_price * 101

\* C19: the risk pass flags a position for closure, once and with reason
\* STOP, exactly when low <= stop <= high on the day's bar, stop being
\* entry_price if the position is armed on that bar and stop_price otherwise,
\* at the exit price stop * (1 - slippage_bps / 10000); the closures that
\* follow close the flagged positions and no other, each with one STOP Trade
\* of that day at that exit price.  A bar wholly below the stop closes nothing.
C19_StopIffInRange ==
    [][ /\ pc = "manage" =>
             \A k \in 1..Len(positions) :
                 LET p == positions[k]
                     bar == today.stock[p.ticker]
                     stop == IF ~p.breakeven_set
                                   /\ bar.high * 100 >= p.entry_price * 101
                             THEN p.entry_price ELSE p.stop_price
                     hits == {n \in 1..Len(to_close') : to_close'[n].t = p.ticker}
                 IN  /\ hits # {} <=> (bar.low <= stop /\ stop <= bar.high)
                     /\ bar.high < stop => hits = {}
                     /\ Cardinality(hits) <= 1
                     /\ \A n \in hits :
                           /\ to_close'[n].reason = "STOP"
                           /\ to_close'[n].exit_px * BpsDenominator
                                 = stop * (BpsDenominator - run.slippage_bps)
        /\ pc = "close" =>
             /\ Keys(positions) \ Keys(positions')
                   = {to_close[n].t : n \in 1..Len(to_close)}
             /\ Len(trades') = Len(trades) + Len(to_close)
             /\ \A n \in 1..Len(to_close) :
                   LET tr == trades'[Len(trades) + n]
                   IN  /\ tr.ticker = to_close[n].t
                       /\ tr.reason = "STOP"
                       /\ tr.exit_date = i
                       /\ tr.exit_price = to_close[n].exit_px
      ]_vars

\* C19 witness: a position bought the day before has been armed and stopped
\* on one and the same bar, at its entry price less the slippage
C19_Witness ==
    /\ pc = "remark"
    /\ trades # <<>>
    /\ LET tr == trades[Len(trades)]
       IN  /\ tr.reason = "STOP"
           /\ tr.exit_date = i
           /\ tr.entry_date = i - 1
           /\ tr.exit_price * BpsDenominator
                 = tr.entry_price * (BpsDenominator - run.slippage_bps)
           /\ today.stock[tr.ticker].low * BpsDenominator
                 > tr.exit_price * BpsDenominator
    /\ run.slippage_bps > 0

\* the ticker's place in the iteration order of the universe
UniverseIndex(t) == CHOOSE n \in 1..Len(run.universe) : run.universe[n] = t

\* C20: on a day on which tickers pass the filter cascade, the candidate
\* taken first is one of them, its 63-bar performance is >= that of every
\* other, among those of equal performance it is the first in the order of
\* the universe, and a position opened that day is a position in it.
C20_StrongestCandidateFirst ==
    LET P == {t \in Tickers(run) : <<i, t>> \in passed}
        perf(t) == (today.stock[t].close - run.warmup_close) * run.warmup_close
    IN  (pc = "record" /\ P # {}) =>
            LET sel == candidates[1].t
            IN  /\ sel \in P
                /\ \A t \in P :
                      /\ perf(sel) >= perf(t)
                      /\ perf(sel) = perf(t) =>
                            UniverseIndex(sel) <= UniverseIndex(t)
                /\ \A k \in 1..Len(positions) :
                      positions[k].entry_date = i => positions[k].ticker = sel

\* C20 witness: two tickers have passed, the second of the universe with the
\* higher performance, and it is the one that was bought
C20_Witness ==
    /\ pc = "record"
    /\ Len(run.universe) >= 2
    /\ <<i, run.universe[1]>> \in passed
    /\ <<i, run.universe[2]>> \in passed
    /\ today.stock[run.universe[2]].close > today.stock[run.universe[1]].close
    /\ positions # <<>>
    /\ positions[Len(positions)].entry_date = i
    /\ positions[Len(positions)].ticker = run.universe[2]

\* the tally of day d for reason k, 0 when the day has none
DayTally(bd, d, k) == IF d \in DOMAIN bd THEN bd[d][k] ELSE 0

\* the shares the formula of the entry gives for a limit price and an ATR
SizedShares(eq, limit, a) ==
    LET stop == IF limit - a > 0 THEN limit - a ELSE (9 * limit) \div 10
        rps == IF limit - stop > 10 THEN limit - stop ELSE 10
        by_risk == (eq * run.risk_per_trade[1]) \div (run.risk_per_trade[2] * rps)
        by_size == (eq * run.max_position_pct[1])
                      \div (run.max_position_pct[2] * limit)
        capped == IF by_risk < by_size THEN by_risk ELSE by_size
    IN  IF capped > 0 THEN capped ELSE 0

\* shares * fill + commission
SizedCost(shares, limit) ==
    shares * ((limit * (BpsDenominator + run.slippage_bps)) \div BpsDenominator)
    + LegCommission(shares)

C22_InitialStop ==
    [][ EntryOpens =>
          LET pos == positions'[Len(positions')]
              limit == today.stock[pos.ticker].ema20
              a == today.stock[pos.ticker].atr14
          IN  (limit > 0 /\ a >= 0) =>
                  /\ limit - a > 0 => pos.stop_price = limit - a
                  /\ limit - a <= 0 => pos.stop_price * 10 = limit * 9
                  /\ pos.stop_price > 0
                  /\ pos.stop_price <= limit
                  /\ ~pos.breakeven_set
      ]_vars

\* C22 witness: a position has been opened on a bar whose atr14 is not below
\* its ema20, with its stop at 0.9 * ema20
C22_Witness ==
    /\ pc = "record"
    /\ positions # <<>>
    /\ LET pos == positions[Len(positions)]
       IN  /\ pos.entry_date = i
           /\ today.stock[pos.ticker].atr14 >= today.stock[pos.ticker].ema20
           /\ pos.stop_price * 10 = today.stock[pos.ticker].ema20 * 9
           /\ ~pos.breakeven_set

\* C23 (as claimed): when the entry phase runs with the regime risk-on and
\* the gate unlocked and opens no position, every rejection reason met in
\* that day's screening is added, as often as it was met, to the run's tally
\* and to the day's, also when a candidate qualified and was skipped.
C23_AllReasonsTallied ==
    [][ ( /\ pc = "entry" /\ risk_on /\ last_trade_unlocked
          /\ positions' = positions ) =>
          \A k \in Reasons :
              LET met == Cardinality({n \in 1..Len(run.universe) :
                            Screen(run.universe[n], run, today, prev, i, positions) = k})
              IN  /\ diag_totals'[k] >= diag_totals[k] + met
                  /\ DayTally(diag_by_day', i, k) >= DayTally(diag_by_day, i, k) + met
      ]_vars

\* C24 (as claimed): when the entry phase of a day has run, the perf_3m of a
\* ticker is undefined if the day's index is below 63 or the close 63 bars
\* earlier is zero, and such a ticker has not passed the filter cascade and
\* has not been bought that day.
C24_ZeroBaseIsUndefined ==
    pc = "record" =>
        \A t \in Tickers(run) :
            (i < 63 \/ run.warmup_close = 0) =>
                /\ PreparedRow(run, today.stock[t], i).perf_3m.k = "nan"
                /\ <<i, t>> \notin passed
                /\ \A k \in 1..Len(positions) :
                      positions[k].ticker = t => positions[k].entry_date # i

\* C25 (as claimed): in every state of a run the market frame, the sector
\* frames and the stock frames of the caller have the columns they were
\* handed over with, and no step changes the arguments of the call, the
\* ticker-to-sector mapping among them.
C25_InputsReadOnly ==
    /\ [](\A f \in {"spy", "sector", "stock"} :
              inputs[f] = {"date", "open", "high", "low", "close", "volume"})
    /\ [][run' = run]_vars

\* a STOP Trade of a position that was never armed: an armed position is
\* stopped at its entry price less the slippage, a position that is not armed
\* at its first stop, which lies below its entry price
UnarmedStop(tr) ==
    /\ tr.reason = "STOP"
    /\ tr.exit_price * BpsDenominator
          # tr.entry_price * (BpsDenominator - run.slippage_bps)

\* C26: a closure that closes a position that is not armed leaves the gate
\* locked; and once the ledger holds the STOP Trade of a position that was
\* never armed, the gate is locked, every open position is armed, and no
\* position, open or closed, has an entry date on or after that Trade's exit
\* date.
C26_UnarmedStopLocksForGood ==
    /\ [](\A k \in 1..Len(trades) :
              UnarmedStop(trades[k]) =>
                  /\ ~last_trade_unlocked
                  /\ \A j \in 1..Len(positions) :
                        /\ positions[j].breakeven_set
                        /\ positions[j].entry_date < trades[k].exit_date
                  /\ \A j \in 1..Len(trades) :
                        trades[j].entry_date < trades[k].exit_date)
    /\ [][ ( /\ pc = "close"
             /\ \E n \in 1..Len(to_close) :
                   ~DictGet(positions, to_close[n].t).breakeven_set ) =>
              /\ ~last_trade_unlocked'
              /\ \E k \in (Len(trades) + 1)..Len(trades') : UnarmedStop(trades'[k])
         ]_vars

\* C26 witness: after the stop of a position that was never armed, a later
\* day is risk-on, nothing is held, a ticker passes every filter, and the
\* entry phase has opened nothing
C26_Witness ==
    /\ pc = "record"
    /\ risk_on
    /\ positions = <<>>
    /\ \E k \in 1..Len(trades) :
          UnarmedStop(trades[k]) /\ trades[k].exit_date < i
    /\ \E t \in Tickers(run) : ScreenFree(t, run, today, prev, i) = ""

\* C27: every Trade with reason STOP has exit_price <= entry_price,
\* pnl_pct <= 0 and pnl <= 0, so a Trade with a profit has reason
\* EOD_LIQUIDATION.
C27_StopNeverProfits ==
    \A k \in 1..Len(trades) :
        /\ trades[k].reason = "STOP" =>
              /\ trades[k].exit_price <= trades[k].entry_price
              /\ trades[k].pnl_pct.k = "fin"
              /\ trades[k].pnl_pct.n <= 0
              /\ trades[k].pnl <= 0
        /\ (trades[k].pnl > 0 \/ trades[k].exit_price > trades[k].entry_price) =>
              trades[k].reason = "EOD_LIQUIDATION"

\* C27 witness: a run has ended with a STOP Trade at exactly its entry price
\* and with a liquidation at a profit
C27_Witness ==
    /\ pc = "done"
    /\ \E k \in 1..Len(trades) :
          /\ trades[k].reason = "STOP"
          /\ trades[k].exit_price = trades[k].entry_price
    /\ \E k \in 1..Len(trades) :
          /\ trades[k].reason = "EOD_LIQUIDATION"
          /\ trades[k].pnl > 0

\* C28: the risk pass and the closures of a day see only positions opened on
\* an earlier day, and every Trade with reason STOP has an exit_date later
\* than its entry_date.
C28_NoRiskPassOnEntryDay ==
    /\ pc \in {"manage", "close"} =>
          \A k \in 1..Len(positions) : positions[k].entry_date < i
    /\ \A k \in 1..Len(trades) :
          /\ trades[k].entry_date <= trades[k].exit_date
          /\ trades[k].reason = "STOP" => trades[k].entry_date < trades[k].exit_date

\* C28 witness: a run has ended with a position stopped on the day after its
\* entry and with one opened and liquidated on the last day
C28_Witness ==
    /\ pc = "done"
    /\ \E k \in 1..Len(trades) :
          /\ trades[k].reason = "STOP"
          /\ trades[k].exit_date = trades[k].entry_date + 1
    /\ \E k \in 1..Len(trades) :
          /\ trades[k].reason = "EOD_LIQUIDATION"
          /\ trades[k].exit_date = trades[k].entry_date

\* C29 (as claimed): cash is never negative, in no state and in no equity
\* row.
C29_CashNeverNegative ==
    /\ cash >= 0
    /\ \A k \in 1..Len(equity_rows) : equity_rows[k].cash >= 0

\* shares * exit_price - commission, summed over the Trades n+1.. of a ledger
RECURSIVE NetProceedsFrom(_, _)
NetProceedsFrom(tr, n) ==
    IF n >= Len(tr) THEN 0
    ELSE tr[n + 1].shares * tr[n + 1].exit_price - LegCommission(tr[n + 1].shares)
         + NetProceedsFrom(tr, n + 1)

\* C29 (amended): an entry is made with cash >= 0 and leaves cash >= 0; the
\* closures and the liquidation change cash by shares * exit price minus the
\* exit commission of each Trade they append; no other step changes cash; so
\* cash is negative only after a Trade whose commission exceeded its proceeds.
C29_CashAfterEntryAndClosures ==
    /\ [](cash < 0 =>
              \E k \in 1..Len(trades) :
                  trades[k].shares * trades[k].exit_price
                      < LegCommission(trades[k].shares))
    /\ [][ /\ EntryOpens => (cash >= 0 /\ cash' >= 0 /\ cash' < cash)
           /\ pc \in {"close", "liquidate"} =>
                 cash' = cash + NetProceedsFrom(trades', Len(trades))
           /\ pc \notin {"close", "liquidate", "entry"} => cash' = cash
           /\ (pc = "entry" /\ ~EntryOpens) => cash' = cash
         ]_vars

\* C29 witness: the stop of one share at 0.720 with a commission of 1.000 has
\* left the cash, which the entry had taken to 0, below 0
C29_Witness ==
    /\ pc = "remark"
    /\ cash < 0
    /\ trades # <<>>
    /\ trades[Len(trades)].reason = "STOP"
    /\ trades[Len(trades)].exit_date = i
    /\ trades[Len(trades)].shares * trades[Len(trades)].exit_price
          < LegCommission(trades[Len(trades)].shares)

====
